---- MODULE Spec2Model ----
(***************************************************************************)
(* Model of the mergesort-cmp crate: the sequential merge sort             *)
(* (src/src/sequential.rs) as recursive operators, and the fork-join       *)
(* parallel merge sort (src/src/parallel.rs) as a state machine whose      *)
(* frames are the calls of `split`, whose threads are the spawned workers  *)
(* and whose steps are spawn, call, base-case copy, drain step of the      *)
(* merge, return, join and panic.                                          *)
(***************************************************************************)
EXTENDS Integers, Sequences, FiniteSets, TLC

(* ---------------------------------------------------------------- bounds *)

\* Longest input array.
MaxLen == 3

\* Elements are integers (i32 in the doc tests, i64 in the benchmark):
\* 1..MaxElem.
MaxElem == 3

\* Largest thread count handed to SortOptions::threads.
MaxThreads == 4

\* What num_cpus::get() and num_cpus::get_physical() answer on the host.
NumCpus == 4

NumPhysicalCpus == 2

Elements == 1..MaxElem

\* All arrays of at most MaxLen elements.
Arrays == UNION {[1..n -> Elements] : n \in 0..MaxLen}

\* Range<usize> values offered to SortOptions::range; they include malformed
\* ones (start > end, and end > length for the arrays shorter than MaxLen).
RangeBound == MaxLen

Ranges == (0..RangeBound) \X (0..RangeBound)

ThreadCounts == 0..MaxThreads

(* ----------------------------------------------------------- comparators *)

\* std::cmp::Ordering
Ordering == {"Less", "Equal", "Greater"}

\* Ord::cmp on integers.
int_cmp(a, b) == IF a < b THEN "Less" ELSE IF a > b THEN "Greater" ELSE "Equal"

\* The comparators a SortOptions is built with:
\*   "natural"  default_order():  Ord::cmp
\*   "reverse"  reverse_order():  |left, right| right.cmp(left)
\*   "by_half"  custom_order(|left, right| (left / 2).cmp(&(right / 2))): a
\*              total preorder that reports Equal for 2k and 2k+1
\*   "flaky"    custom_order of a closure that answers as Ord::cmp or panics
Comparators == {"natural", "reverse", "by_half", "flaky"}

compare(c, left, right) ==
    CASE c = "natural" -> int_cmp(left, right)
      [] c = "reverse" -> int_cmp(right, left)
      [] c = "by_half" -> int_cmp(left \div 2, right \div 2)
      [] c = "flaky"   -> int_cmp(left, right)

\* Option<T>: None is <<>>, Some(x) is <<x>>.
None == <<>>

Some(x) == <<x>>

(* --------------------------------------------------- parallel.rs: merge *)

\* The loop with the arguments of the comparison exchanged:
\* compare(&pivot_elem, &elem) in place of compare(&elem, &pivot_elem).
RECURSIVE parallel_merge_while_less_loop_swapped(_, _, _, _)
parallel_merge_while_less_loop_swapped(half, pivot_elem, merged, c) ==
    IF half = <<>>
    THEN [half |-> <<>>, pivot |-> None,
          merged |-> Append(merged, pivot_elem), ret |-> TRUE]
    ELSE LET elem == Head(half) IN
         IF compare(c, pivot_elem, elem) \in {"Equal", "Greater"}
         THEN [half |-> Tail(half), pivot |-> Some(elem),
               merged |-> Append(merged, pivot_elem), ret |-> TRUE]
         ELSE parallel_merge_while_less_loop_swapped(Tail(half), pivot_elem,
                                                     Append(merged, elem), c)

\* The loop without `merged.push(pivot_elem)` where the pivot changes: the
\* former pivot is not saved.
RECURSIVE parallel_merge_while_less_loop_forgets_pivot(_, _, _, _)
parallel_merge_while_less_loop_forgets_pivot(half, pivot_elem, merged, c) ==
    IF half = <<>>
    THEN [half |-> <<>>, pivot |-> None,
          merged |-> Append(merged, pivot_elem), ret |-> TRUE]
    ELSE LET elem == Head(half) IN
         IF compare(c, elem, pivot_elem) \in {"Equal", "Greater"}
         THEN [half |-> Tail(half), pivot |-> Some(elem),
               merged |-> merged, ret |-> TRUE]
         ELSE parallel_merge_while_less_loop_forgets_pivot(Tail(half), pivot_elem,
                                                           Append(merged, elem), c)

\* The loop of merge_while_less, entered with the pivot taken out.
RECURSIVE parallel_merge_while_less_loop(_, _, _, _)
parallel_merge_while_less_loop(half, pivot_elem, merged, c) ==
    IF half = <<>>
    THEN [half |-> <<>>, pivot |-> None,
          merged |-> Append(merged, pivot_elem), ret |-> TRUE]
    ELSE LET elem == Head(half) IN
         IF compare(c, elem, pivot_elem) \in {"Equal", "Greater"}
         THEN [half |-> Tail(half), pivot |-> Some(elem),
               merged |-> Append(merged, pivot_elem), ret |-> TRUE]
         ELSE parallel_merge_while_less_loop(Tail(half), pivot_elem,
                                             Append(merged, elem), c)

\* merge_while_less without `merged.extend(half)` when there is no pivot.
parallel_merge_while_less_drops_rest(half, pivot, merged, c) ==
    IF pivot = None
    THEN [half |-> <<>>, pivot |-> None, merged |-> merged, ret |-> FALSE]
    ELSE parallel_merge_while_less_loop(half, Head(pivot), merged, c)

\* merge_while_less answering true also when there is no pivot: the loop of
\* merge is never told to stop.
parallel_merge_while_less_always_true(half, pivot, merged, c) ==
    IF pivot = None
    THEN [half |-> <<>>, pivot |-> None, merged |-> merged \o half, ret |-> TRUE]
    ELSE parallel_merge_while_less_loop(half, Head(pivot), merged, c)

\* merge_while_less(half, pivot, merged, compare): the iterator, the pivot and
\* the merged vector after the call, and the returned flag.
parallel_merge_while_less(half, pivot, merged, c) ==
    IF pivot = None
    THEN [half |-> <<>>, pivot |-> None, merged |-> merged \o half, ret |-> FALSE]
    ELSE parallel_merge_while_less_loop(half, Head(pivot), merged, c)

\* The while loop of merge: drain the upper half, then the lower half, as long
\* as both calls return true.
RECURSIVE parallel_merge_loop(_, _, _, _, _)
parallel_merge_loop(lower_iter, upper_iter, pivot, merged, c) ==
    LET u == parallel_merge_while_less(upper_iter, pivot, merged, c) IN
    IF ~u.ret THEN u.merged
    ELSE LET l == parallel_merge_while_less(lower_iter, u.pivot, u.merged, c) IN
         IF ~l.ret THEN l.merged
         ELSE parallel_merge_loop(l.half, u.half, l.pivot, l.merged, c)

\* lower_iter.next(): the pivot and the rest of the iterator.
iter_next(it) == IF it = <<>> THEN [item |-> None, rest |-> <<>>]
                 ELSE [item |-> Some(Head(it)), rest |-> Tail(it)]

parallel_merge(lower, upper, c) ==
    LET first == iter_next(lower) IN
    parallel_merge_loop(first.rest, upper, first.item, <<>>, c)

(* ------------------------------------------------------- sequential.rs *)

RECURSIVE sequential_merge_while_less_loop(_, _, _, _)
sequential_merge_while_less_loop(half, pivot_elem, merged, c) ==
    IF half = <<>>
    THEN [half |-> <<>>, pivot |-> None,
          merged |-> Append(merged, pivot_elem), ret |-> TRUE]
    ELSE LET elem == Head(half) IN
         IF compare(c, elem, pivot_elem) \in {"Equal", "Greater"}
         THEN [half |-> Tail(half), pivot |-> Some(elem),
               merged |-> Append(merged, pivot_elem), ret |-> TRUE]
         ELSE sequential_merge_while_less_loop(Tail(half), pivot_elem,
                                               Append(merged, elem), c)

sequential_merge_while_less(half, pivot, merged, c) ==
    IF pivot = None
    THEN [half |-> <<>>, pivot |-> None, merged |-> merged \o half, ret |-> FALSE]
    ELSE sequential_merge_while_less_loop(half, Head(pivot), merged, c)

RECURSIVE sequential_merge_loop(_, _, _, _, _)
sequential_merge_loop(lower_iter, upper_iter, pivot, merged, c) ==
    LET u == sequential_merge_while_less(upper_iter, pivot, merged, c) IN
    IF ~u.ret THEN u.merged
    ELSE LET l == sequential_merge_while_less(lower_iter, u.pivot, u.merged, c) IN
         IF ~l.ret THEN l.merged
         ELSE sequential_merge_loop(l.half, u.half, l.pivot, l.merged, c)

sequential_merge(lower, upper, c) ==
    LET first == iter_next(lower) IN
    sequential_merge_loop(first.rest, upper, first.item, <<>>, c)

\* split(array, compare) of sequential.rs: array is the slice itself.
RECURSIVE sequential_split(_, _)
sequential_split(slice, c) ==
    IF Len(slice) > 1
    THEN LET half == (Len(slice) + 1) \div 2
             lower_slice == SubSeq(slice, 1, half)
             upper_slice == SubSeq(slice, half + 1, Len(slice))
             lower == sequential_split(lower_slice, c)
             upper == sequential_split(upper_slice, c)
         IN  sequential_merge(lower, upper, c)
    ELSE slice

sequential_sort_by(slice, c) == sequential_split(slice, c)

sequential_sort(slice) == sequential_sort_by(slice, "natural")

(* ------------------------------------- parallel.rs: split as a function *)

\* The outcome of a call: a vector, or a panic.
Ok(v) == [panic |-> FALSE, vec |-> v]

Panic == [panic |-> TRUE, vec |-> <<>>]

\* ExactSizeIterator::len of a Range<usize>: 0 when start >= end.
range_len(r) == IF r[1] < r[2] THEN r[2] - r[1] ELSE 0

\* The base case copying the first range.len() elements of the array:
\* array[.. range.len()].to_vec().
slice_to_vec_from_zero(arr, r) ==
    IF r[1] > r[2] \/ r[2] > Len(arr) THEN Panic
    ELSE Ok(SubSeq(arr, 1, r[2] - r[1]))

\* The base case with a checked, clamping access in place of the slice index:
\* what is inside the array, and nothing for a range that lies outside.
slice_to_vec_clamped(arr, r) ==
    LET last == IF r[2] > Len(arr) THEN Len(arr) ELSE r[2] IN
    IF r[1] >= last THEN Ok(<<>>) ELSE Ok(SubSeq(arr, r[1] + 1, last))

\* array[range].to_vec(): slice indexing panics when start > end or
\* end > array.len().
slice_to_vec(arr, r) ==
    IF r[1] > r[2] \/ r[2] > Len(arr) THEN Panic
    ELSE Ok(SubSeq(arr, r[1] + 1, r[2]))

\* The middle index rounded down: start + (end - start)/2.
half_of_floor(r) == r[1] + range_len(r) \div 2

\* The middle index: start + (end - start + 1)/2.
half_of(r) == r[1] + (range_len(r) + 1) \div 2

lower_range_of(r) == <<r[1], half_of(r)>>

\* The upper half starting one past the middle: half + 1 .. end.
upper_range_of_skips_middle(r) == <<half_of(r) + 1, r[2]>>

upper_range_of(r) == <<half_of(r), r[2]>>

\* The budget handed on whole: threads in place of threads / 2.
child_threads_undivided(threads) == IF threads > 1 THEN threads ELSE 1

\* The budget handed to both halves.
child_threads(threads) == IF threads > 1 THEN threads \div 2 ELSE 1

\* split(array, range, compare, threads) as the function it computes when no
\* comparator call panics: join hands over the value the worker returned, so
\* the value does not depend on the schedule.
RECURSIVE parallel_split(_, _, _, _)
parallel_split(arr, r, c, threads) ==
    IF range_len(r) > 1
    THEN LET lower == parallel_split(arr, lower_range_of(r), c, child_threads(threads))
             upper == parallel_split(arr, upper_range_of(r), c, child_threads(threads))
         IN  IF lower.panic \/ upper.panic THEN Panic
             ELSE Ok(parallel_merge(lower.vec, upper.vec, c))
    ELSE slice_to_vec(arr, r)

(* ------------------------------------------------------------- the state *)

VARIABLES
    array,      \* the shared input array (Arc<[T]>) of the call under way;
                \* empty while there is none
    options,    \* the SortOptions: [threads, compare, range]
    phase,      \* of the caller: "idle", "running", "returned", "panicked"
    frames,     \* the calls of split made so far: node |-> frame
    spawned,    \* how many threads the current sort call has spawned
    out         \* what SortOptions::sort handed to the caller

vars == <<array, options, phase, frames, spawned, out>>

\* Option<Range<usize>>: None, or Some(<<start, end>>).
RangeOptions == {None} \cup {Some(r) : r \in Ranges}

\* The calls form a binary tree: the root call is node 1, the call on the lower
\* half of node n is node 2n, the call on the upper half is node 2n+1.
Root == 1

LowerOf(n) == 2 * n

UpperOf(n) == 2 * n + 1

\* The caller's thread; a spawned worker is named by the node it runs.
MainThread == 0

Nodes == DOMAIN frames

\* A frame right after the call: the arguments, and empty locals.
NewFrame(r, budget, thread) ==
    [range |-> r, threads |-> budget, thread |-> thread, pc |-> "start",
     lower |-> <<>>, upper |-> <<>>,
     lower_iter |-> <<>>, upper_iter |-> <<>>, pivot |-> None, merged |-> <<>>,
     ret |-> <<>>]

NoFrames == [n \in {} |-> NewFrame(<<0, 0>>, 1, MainThread)]

NoOut == [panic |-> FALSE, vec |-> <<>>]

(* ----------------------------------------------------- the constructors *)

\* default_order(), reverse_order(), custom_order(f): threads is
\* num_cpus::get(), range is None.
default_order == [threads |-> NumCpus, compare |-> "natural", range |-> None]

reverse_order == [threads |-> NumCpus, compare |-> "reverse", range |-> None]

custom_order(f) == [threads |-> NumCpus, compare |-> f, range |-> None]

Init ==
    /\ array = <<>>
    /\ options \in {default_order, reverse_order}
                       \cup {custom_order(f) : f \in {"by_half", "flaky"}}
    /\ phase = "idle"
    /\ frames = NoFrames
    /\ spawned = 0
    /\ out = NoOut

(* ------------------------------------------------- SortOptions: setters *)

SetThreads(t) ==
    /\ phase = "idle"
    /\ options' = [options EXCEPT !.threads = t]
    /\ UNCHANGED <<array, phase, frames, spawned, out>>

ThreadPerCpu ==
    /\ phase = "idle"
    /\ options' = [options EXCEPT !.threads = NumCpus]
    /\ UNCHANGED <<array, phase, frames, spawned, out>>

ThreadPerPhysicalCpu ==
    /\ phase = "idle"
    /\ options' = [options EXCEPT !.threads = NumPhysicalCpus]
    /\ UNCHANGED <<array, phase, frames, spawned, out>>

SetRange(r) ==
    /\ phase = "idle"
    /\ options' = [options EXCEPT !.range = Some(r)]
    /\ UNCHANGED <<array, phase, frames, spawned, out>>

FullRange ==
    /\ phase = "idle"
    /\ options' = [options EXCEPT !.range = None]
    /\ UNCHANGED <<array, phase, frames, spawned, out>>

(* ---------------------------------------------------- SortOptions::sort *)

\* self.range.clone().unwrap_or(0 .. array.len())
EffectiveRange(opts, arr) ==
    IF opts.range = None THEN <<0, Len(arr)>> ELSE Head(opts.range)

\* sort taking the range out of the options, self.range.take() in place of
\* self.range.clone(): the call leaves the options without a range.
Sort_takes_range(arr) ==
    /\ phase = "idle"
    /\ array' = arr
    /\ phase' = "running"
    /\ frames' = (Root :> NewFrame(EffectiveRange(options, arr),
                                   options.threads, MainThread))
    /\ spawned' = 0
    /\ options' = [options EXCEPT !.range = None]
    /\ UNCHANGED out

\* The call of sort on an array: resolves the range and calls split on the
\* caller's thread.
Sort(arr) ==
    /\ phase = "idle"
    /\ array' = arr
    /\ phase' = "running"
    /\ frames' = (Root :> NewFrame(EffectiveRange(options, arr),
                                   options.threads, MainThread))
    /\ spawned' = 0
    /\ UNCHANGED <<options, out>>

\* split returned to sort, which returns the vector to the caller.
SortReturn ==
    /\ phase = "running"
    /\ frames[Root].pc = "done"
    /\ phase' = "returned"
    /\ out' = Ok(frames[Root].ret)
    /\ UNCHANGED <<array, options, frames, spawned>>

\* split panicked on the caller's thread: the panic leaves sort.
SortPanic ==
    /\ phase = "running"
    /\ frames[Root].pc = "panicked"
    /\ phase' = "panicked"
    /\ out' = Panic
    /\ UNCHANGED <<array, options, frames, spawned>>

\* The caller, holding the vector of the call that returned, calls sort again
\* on the same options and the same array.
SortAgain ==
    /\ phase = "returned"
    /\ phase' = "running"
    /\ frames' = (Root :> NewFrame(EffectiveRange(options, array),
                                   options.threads, MainThread))
    /\ spawned' = 0
    /\ UNCHANGED <<array, options, out>>

\* The caller drops the vector and the array; the options can be used again.
Reuse ==
    /\ phase \in {"returned", "seq_returned"}
    /\ phase' = "idle"
    /\ array' = <<>>
    /\ frames' = NoFrames
    /\ spawned' = 0
    /\ out' = NoOut
    /\ UNCHANGED options

(* --------------------------------------- sequential.rs: the entry points *)

\* start <= end <= array.len(): the ranges the spec calls valid.
ValidRange(r, arr) == r[1] <= r[2] /\ r[2] <= Len(arr)

\* The slice the options select, 0-based half-open range on a 1-based sequence.
Slice(arr, r) == SubSeq(arr, r[1] + 1, r[2])

\* The caller hands the slice of an array that the options select, and the
\* comparator of the options, to sequential::sort_by; a comparator that panics
\* ends the call in a panic.
SequentialSortBy(arr) ==
    /\ phase = "idle"
    /\ ValidRange(EffectiveRange(options, arr), arr)
    /\ array' = arr
    /\ LET slice == Slice(arr, EffectiveRange(options, arr)) IN
       \/ /\ phase' = "seq_returned"
          /\ out' = Ok(sequential_sort_by(slice, options.compare))
       \/ /\ options.compare = "flaky"
          /\ Len(slice) > 1
          /\ phase' = "seq_panicked"
          /\ out' = Panic
    /\ UNCHANGED <<options, frames, spawned>>

\* sequential::sort: the natural order.
SequentialSort(arr) ==
    /\ phase = "idle"
    /\ options.compare = "natural"
    /\ ValidRange(EffectiveRange(options, arr), arr)
    /\ array' = arr
    /\ phase' = "seq_returned"
    /\ out' = Ok(sequential_sort(Slice(arr, EffectiveRange(options, arr))))
    /\ UNCHANGED <<options, frames, spawned>>

(* -------------------------------------------- parallel.rs: split, stepped *)

\* The base case moving the elements out of the array, drain(range) in place
\* of a copy: the array loses what the call returns.
Leaf_drains(n) ==
    /\ n \in Nodes
    /\ frames[n].pc = "start"
    /\ range_len(frames[n].range) <= 1
    /\ LET res == slice_to_vec(array, frames[n].range) IN
       /\ frames' = [frames EXCEPT ![n].pc = IF res.panic THEN "panicked" ELSE "done",
                                   ![n].ret = res.vec]
       /\ array' = IF res.panic THEN array
                   ELSE SubSeq(array, 1, frames[n].range[1])
                            \o SubSeq(array, frames[n].range[2] + 1, Len(array))
    /\ UNCHANGED <<options, phase, spawned, out>>

\* `if range.len() > 1` is false: array[range].to_vec() is returned, or the
\* slice index panics.
Leaf(n) ==
    /\ n \in Nodes
    /\ frames[n].pc = "start"
    /\ range_len(frames[n].range) <= 1
    /\ LET res == slice_to_vec(array, frames[n].range) IN
       frames' = [frames EXCEPT ![n].pc = IF res.panic THEN "panicked" ELSE "done",
                                ![n].ret = res.vec]
    /\ UNCHANGED <<array, options, phase, spawned, out>>

\* The spawn with the worker closure capturing lower_range: both the worker
\* and the caller sort the lower half.
Spawn_lower_range(n) ==
    /\ n \in Nodes
    /\ frames[n].pc = "start"
    /\ range_len(frames[n].range) > 1
    /\ frames[n].threads > 1
    /\ frames' = [frames EXCEPT ![n].pc = "spawned"] @@
                 (UpperOf(n) :> NewFrame(lower_range_of(frames[n].range),
                                         frames[n].threads \div 2, UpperOf(n)))
    /\ spawned' = spawned + 1
    /\ UNCHANGED <<array, options, phase, out>>

\* The spawn guarded by `threads >= 1`: a call with budget 1 spawns too.
Spawn_at_one(n) ==
    /\ n \in Nodes
    /\ frames[n].pc = "start"
    /\ range_len(frames[n].range) > 1
    /\ frames[n].threads >= 1
    /\ frames' = [frames EXCEPT ![n].pc = "spawned"] @@
                 (UpperOf(n) :> NewFrame(upper_range_of(frames[n].range),
                                         frames[n].threads \div 2, UpperOf(n)))
    /\ spawned' = spawned + 1
    /\ UNCHANGED <<array, options, phase, out>>

\* The spawn with a size cutoff: no worker for a range of fewer than three
\* elements.
Spawn_with_cutoff(n) ==
    /\ n \in Nodes
    /\ frames[n].pc = "start"
    /\ range_len(frames[n].range) > 2
    /\ frames[n].threads > 1
    /\ frames' = [frames EXCEPT ![n].pc = "spawned"] @@
                 (UpperOf(n) :> NewFrame(upper_range_of(frames[n].range),
                                         frames[n].threads \div 2, UpperOf(n)))
    /\ spawned' = spawned + 1
    /\ UNCHANGED <<array, options, phase, out>>

\* The spawn guarded by `threads != 1`: a budget of 0 spawns too.
Spawn_unless_one(n) ==
    /\ n \in Nodes
    /\ frames[n].pc = "start"
    /\ range_len(frames[n].range) > 1
    /\ frames[n].threads # 1
    /\ frames' = [frames EXCEPT ![n].pc = "spawned"] @@
                 (UpperOf(n) :> NewFrame(upper_range_of(frames[n].range),
                                         frames[n].threads \div 2, UpperOf(n)))
    /\ spawned' = spawned + 1
    /\ UNCHANGED <<array, options, phase, out>>

\* `if threads > 1`: thread::spawn of the worker that runs split on the upper
\* half with threads / 2.
Spawn(n) ==
    /\ n \in Nodes
    /\ frames[n].pc = "start"
    /\ range_len(frames[n].range) > 1
    /\ frames[n].threads > 1
    /\ frames' = [frames EXCEPT ![n].pc = "spawned"] @@
                 (UpperOf(n) :> NewFrame(upper_range_of(frames[n].range),
                                         frames[n].threads \div 2, UpperOf(n)))
    /\ spawned' = spawned + 1
    /\ UNCHANGED <<array, options, phase, out>>

\* The call on the lower half made with the whole budget after the spawn:
\* threads in place of threads / 2.
CallLower_whole_budget(n) ==
    /\ n \in Nodes
    /\ \/ frames[n].pc = "spawned"
       \/ /\ frames[n].pc = "start"
          /\ range_len(frames[n].range) > 1
          /\ frames[n].threads <= 1
    /\ frames' = [frames EXCEPT ![n].pc = "in_lower"] @@
                 (LowerOf(n) :> NewFrame(lower_range_of(frames[n].range),
                                         IF frames[n].threads > 1
                                         THEN frames[n].threads ELSE 1,
                                         frames[n].thread))
    /\ UNCHANGED <<array, options, phase, spawned, out>>

\* The call of split on the lower half, on the thread of the caller: with
\* threads / 2 after the spawn, with 1 in the else branch.
CallLower(n) ==
    /\ n \in Nodes
    /\ \/ frames[n].pc = "spawned"
       \/ /\ frames[n].pc = "start"
          /\ range_len(frames[n].range) > 1
          /\ frames[n].threads <= 1
    /\ frames' = [frames EXCEPT ![n].pc = "in_lower"] @@
                 (LowerOf(n) :> NewFrame(lower_range_of(frames[n].range),
                                         child_threads(frames[n].threads),
                                         frames[n].thread))
    /\ UNCHANGED <<array, options, phase, spawned, out>>

\* The call on the lower half returned its vector.
ReturnLower(n) ==
    /\ n \in Nodes
    /\ frames[n].pc = "in_lower"
    /\ frames[LowerOf(n)].pc = "done"
    /\ frames' = [frames EXCEPT
                     ![n].lower = frames[LowerOf(n)].ret,
                     ![n].pc = IF frames[n].threads > 1 THEN "join" ELSE "call_upper"]
    /\ UNCHANGED <<array, options, phase, spawned, out>>

\* Else branch: the call of split on the upper half, with 1 thread, on the
\* thread of the caller.
CallUpper(n) ==
    /\ n \in Nodes
    /\ frames[n].pc = "call_upper"
    /\ frames' = [frames EXCEPT ![n].pc = "in_upper"] @@
                 (UpperOf(n) :> NewFrame(upper_range_of(frames[n].range), 1,
                                         frames[n].thread))
    /\ UNCHANGED <<array, options, phase, spawned, out>>

\* Else branch: the call on the upper half returned its vector.
ReturnUpper(n) ==
    /\ n \in Nodes
    /\ frames[n].pc = "in_upper"
    /\ frames[UpperOf(n)].pc = "done"
    /\ frames' = [frames EXCEPT ![n].upper = frames[UpperOf(n)].ret,
                                ![n].pc = "merge"]
    /\ UNCHANGED <<array, options, phase, spawned, out>>

\* The join with the failure swallowed, join().unwrap_or_default(): a worker
\* that panicked counts as an empty upper half.
Join_ignores_failure(n) ==
    /\ n \in Nodes
    /\ frames[n].pc = "join"
    /\ frames[UpperOf(n)].pc \in {"done", "panicked"}
    /\ frames' = [frames EXCEPT ![n].upper = frames[UpperOf(n)].ret,
                                ![n].pc = "merge"]
    /\ UNCHANGED <<array, options, phase, spawned, out>>

\* A join that does not block: the caller goes on to its merge with whatever
\* the worker has produced so far.
Join_does_not_wait(n) ==
    /\ n \in Nodes
    /\ frames[n].pc = "join"
    /\ frames' = IF frames[UpperOf(n)].pc = "panicked"
                 THEN [frames EXCEPT ![n].pc = "panicked"]
                 ELSE [frames EXCEPT ![n].upper = frames[UpperOf(n)].ret,
                                     ![n].pc = "merge"]
    /\ UNCHANGED <<array, options, phase, spawned, out>>

\* upper_handle.join().expect("thread failed"): blocks until the worker has
\* ended; hands over its vector, or panics when the worker panicked.
Join(n) ==
    /\ n \in Nodes
    /\ frames[n].pc = "join"
    /\ frames[UpperOf(n)].pc \in {"done", "panicked"}
    /\ frames' = IF frames[UpperOf(n)].pc = "done"
                 THEN [frames EXCEPT ![n].upper = frames[UpperOf(n)].ret,
                                     ![n].pc = "merge"]
                 ELSE [frames EXCEPT ![n].pc = "panicked"]
    /\ UNCHANGED <<array, options, phase, spawned, out>>

\* A call made on this thread panicked: the panic unwinds through this frame.
Unwind(n) ==
    /\ n \in Nodes
    /\ \/ frames[n].pc = "in_lower" /\ frames[LowerOf(n)].pc = "panicked"
       \/ frames[n].pc = "in_upper" /\ frames[UpperOf(n)].pc = "panicked"
    /\ frames' = [frames EXCEPT ![n].pc = "panicked"]
    /\ UNCHANGED <<array, options, phase, spawned, out>>

(* -------------------------------------------- parallel.rs: merge, stepped *)

\* merge up to its loop: the two iterators, and the pivot taken from the
\* lower one.
MergeStart(n) ==
    /\ n \in Nodes
    /\ frames[n].pc = "merge"
    /\ LET first == iter_next(frames[n].lower) IN
       frames' = [frames EXCEPT ![n].lower_iter = first.rest,
                                ![n].upper_iter = frames[n].upper,
                                ![n].pivot = first.item,
                                ![n].merged = <<>>,
                                ![n].pc = "drain_upper"]
    /\ UNCHANGED <<array, options, phase, spawned, out>>

\* merge_while_less(&mut upper_iter, ...): on false the loop ends and merged
\* is returned.
DrainUpper(n) ==
    /\ n \in Nodes
    /\ frames[n].pc = "drain_upper"
    /\ LET u == parallel_merge_while_less(frames[n].upper_iter, frames[n].pivot,
                                          frames[n].merged, options.compare) IN
       frames' = [frames EXCEPT ![n].upper_iter = u.half,
                                ![n].pivot = u.pivot,
                                ![n].merged = u.merged,
                                ![n].pc = IF u.ret THEN "drain_lower" ELSE "done",
                                ![n].ret = IF u.ret THEN <<>> ELSE u.merged]
    /\ UNCHANGED <<array, options, phase, spawned, out>>

\* merge_while_less(&mut lower_iter, ...): on false the loop ends and merged
\* is returned.
DrainLower(n) ==
    /\ n \in Nodes
    /\ frames[n].pc = "drain_lower"
    /\ LET l == parallel_merge_while_less(frames[n].lower_iter, frames[n].pivot,
                                          frames[n].merged, options.compare) IN
       frames' = [frames EXCEPT ![n].lower_iter = l.half,
                                ![n].pivot = l.pivot,
                                ![n].merged = l.merged,
                                ![n].pc = IF l.ret THEN "drain_upper" ELSE "done",
                                ![n].ret = IF l.ret THEN <<>> ELSE l.merged]
    /\ UNCHANGED <<array, options, phase, spawned, out>>

\* A drain step that calls the comparator at least once (there is a pivot and
\* the iterator is not empty) panics when the comparator does.
ComparePanic(n) ==
    /\ n \in Nodes
    /\ options.compare = "flaky"
    /\ frames[n].pivot # None
    /\ \/ frames[n].pc = "drain_upper" /\ frames[n].upper_iter # <<>>
       \/ frames[n].pc = "drain_lower" /\ frames[n].lower_iter # <<>>
    /\ frames' = [frames EXCEPT ![n].pc = "panicked"]
    /\ UNCHANGED <<array, options, phase, spawned, out>>

(* ------------------------------------------------------ specifications *)

Next ==
    \/ phase = "idle" /\ \E t \in ThreadCounts : SetThreads(t)
    \/ ThreadPerCpu
    \/ ThreadPerPhysicalCpu
    \/ phase = "idle" /\ \E r \in Ranges : SetRange(r)
    \/ FullRange
    \/ phase = "idle" /\ \E arr \in Arrays : Sort(arr)
    \/ SortReturn
    \/ SortPanic
    \/ Reuse
    \/ phase = "idle" /\ \E arr \in Arrays : SequentialSortBy(arr)
    \/ phase = "idle" /\ \E arr \in Arrays : SequentialSort(arr)
    \/ \E n \in Nodes :
        \/ Leaf(n)
        \/ Spawn(n)
        \/ CallLower(n)
        \/ ReturnLower(n)
        \/ CallUpper(n)
        \/ ReturnUpper(n)
        \/ Join(n)
        \/ Unwind(n)
        \/ MergeStart(n)
        \/ DrainUpper(n)
        \/ DrainLower(n)
        \/ ComparePanic(n)

Spec == Init /\ [][Next]_vars

\* The merge step alone: merge is called on two vectors that are sorted under
\* the comparator (what split hands it), of any lengths, empty ones included.
Sorted(v, c) == \A i \in 1..(Len(v) - 1) : compare(c, v[i], v[i + 1]) # "Greater"

SortedArrays(c) == {v \in Arrays : Sorted(v, c)}

InitMerge ==
    /\ array = <<>>
    /\ options \in {default_order, reverse_order, custom_order("by_half")}
    /\ phase = "running"
    /\ \E lower \in SortedArrays(options.compare),
          upper \in SortedArrays(options.compare) :
          frames = (Root :> [NewFrame(<<0, 0>>, 1, MainThread) EXCEPT
                                !.lower = lower, !.upper = upper, !.pc = "merge"])
    /\ spawned = 0
    /\ out = NoOut

NextMerge ==
    \/ MergeStart(Root)
    \/ DrainUpper(Root)
    \/ DrainLower(Root)

SpecMerge == InitMerge /\ [][NextMerge]_vars

\* Successive calls of sort on one SortOptions whose comparator does not
\* panic: the setters, sort, and sort called again while the caller holds the
\* vector of the call before.
InitReuse ==
    /\ array = <<>>
    /\ options \in {default_order, custom_order("by_half")}
    /\ phase = "idle"
    /\ frames = NoFrames
    /\ spawned = 0
    /\ out = NoOut

NextReuse ==
    \/ phase = "idle" /\ \E t \in ThreadCounts : SetThreads(t)
    \/ ThreadPerCpu
    \/ ThreadPerPhysicalCpu
    \/ phase = "idle" /\ \E r \in Ranges : SetRange(r)
    \/ FullRange
    \/ phase = "idle" /\ \E arr \in Arrays : Sort(arr)
    \/ SortReturn
    \/ SortPanic
    \/ SortAgain
    \/ Reuse
    \/ \E n \in Nodes :
        \/ Leaf(n)
        \/ Spawn(n)
        \/ CallLower(n)
        \/ ReturnLower(n)
        \/ CallUpper(n)
        \/ ReturnUpper(n)
        \/ Join(n)
        \/ Unwind(n)
        \/ MergeStart(n)
        \/ DrainUpper(n)
        \/ DrainLower(n)

SpecReuse == InitReuse /\ [][NextReuse]_vars

(* ------------------------------------------------------------ properties *)

\* How often x occurs in v.
Count(v, x) == Cardinality({i \in DOMAIN v : v[i] = x})

\* v is a rearrangement of u: same length, same multiset of elements.
SameElements(u, v) ==
    /\ Len(u) = Len(v)
    /\ \A x \in Elements : Count(u, x) = Count(v, x)

\* The elements of v that compare Equal to x, in the order they have in v.
EqualTo(v, x, c) ==
    LET IsEqual(e) == compare(c, e, x) = "Equal" IN SelectSeq(v, IsEqual)

\* output keeps, inside every class of elements that compare Equal, the order
\* the elements have in input.
Stable(input, output, c) ==
    \A x \in Elements : EqualTo(output, x, c) = EqualTo(input, x, c)

\* The range the current call of sort works on, and the slice it selects.
Selected == EffectiveRange(options, array)

SelectedSlice == Slice(array, Selected)

\* C1: elements of the selected range that compare Equal appear in the output
\* of the parallel sort and of sequential::sort_by in the order they have in
\* the input.
C1_Stability ==
    phase \in {"returned", "seq_returned"} =>
        Stable(SelectedSlice, out.vec, options.compare)

\* C2: the output of the parallel and of the sequential sort is in
\* non-decreasing comparator order: no adjacent pair compares Greater; under
\* the natural order it ascends, under reverse_order it descends.
C2_OrderInvariant ==
    phase \in {"returned", "seq_returned"} =>
        /\ Sorted(out.vec, options.compare)
        /\ options.compare = "natural" =>
               \A i, j \in DOMAIN out.vec : i < j => out.vec[i] <= out.vec[j]
        /\ options.compare = "reverse" =>
               \A i, j \in DOMAIN out.vec : i < j => out.vec[i] >= out.vec[j]

\* A parallel sort with a spawned worker has returned the descending
\* rearrangement of an array that was neither ascending nor descending.
C2_Witness ==
    /\ phase = "returned"
    /\ options.compare = "reverse"
    /\ options.threads = 2
    /\ array = <<1, 3, 2>>
    /\ out.vec = <<3, 2, 1>>

\* Every call of sequential split on a sub-slice of the slice returns a
\* rearrangement of it, and so does the merge of its two halves.
SequentialCallsPermute(slice, c) ==
    \A s \in 1..(Len(slice) + 1) : \A e \in (s - 1)..Len(slice) :
        LET sub == SubSeq(slice, s, e)
            half == (Len(sub) + 1) \div 2
            lower == sequential_split(SubSeq(sub, 1, half), c)
            upper == sequential_split(SubSeq(sub, half + 1, Len(sub)), c)
        IN  /\ SameElements(sequential_split(sub, c), sub)
            /\ SameElements(sequential_merge(lower, upper, c), lower \o upper)

\* C3: every call of the recursion that has returned, at every level, returned
\* a sequence as long as its range that is a rearrangement of the elements of
\* the range, and every merge returned a rearrangement of its two inputs put
\* together; the same holds of every call of the sequential recursion.
C3_Permutation ==
    /\ \A n \in Nodes :
           frames[n].pc = "done" =>
               /\ Len(frames[n].ret) = range_len(frames[n].range)
               /\ SameElements(frames[n].ret, Slice(array, frames[n].range))
               /\ range_len(frames[n].range) > 1 =>
                      SameElements(frames[n].ret, frames[n].lower \o frames[n].upper)
    /\ phase = "seq_returned" =>
           /\ SameElements(out.vec, SelectedSlice)
           /\ SequentialCallsPermute(SelectedSlice, options.compare)

\* A call below the root has merged two one-element halves into a different
\* order, and the root has merged that with its upper half.
C3_Witness ==
    /\ phase = "returned"
    /\ Len(out.vec) = 3
    /\ 2 \in Nodes
    /\ frames[2].pc = "done"
    /\ frames[2].ret # Slice(array, frames[2].range)
    /\ frames[Root].ret # frames[Root].lower \o frames[Root].upper

\* C4: merge of two sorted sequences returns a sorted sequence in which the
\* elements that compare Equal keep the order they have in lower followed by
\* upper: lower elements before the upper elements Equal to them, each side in
\* its own order.
C4_MergeStable ==
    frames[Root].pc = "done" =>
        /\ Sorted(frames[Root].ret, options.compare)
        /\ Stable(frames[Root].lower \o frames[Root].upper, frames[Root].ret,
                  options.compare)

\* The outcome does not depend on the thread count: what the stepped sort
\* handed back under the configured count and the schedule taken is what split
\* computes for every other count.
SameForEveryThreadCount(outcome) ==
    \A t \in ThreadCounts : parallel_split(array, Selected, options.compare, t) = outcome

\* C5: for a fixed array, range and comparator the output of
\* SortOptions::sort is the same sequence, element for element, for every
\* thread count and every schedule of the workers; so is a panic that does not
\* come from the comparator.
C5_ThreadCountInvariance ==
    /\ phase = "returned" => SameForEveryThreadCount(Ok(out.vec))
    /\ phase = "panicked" /\ options.compare # "flaky" => SameForEveryThreadCount(Panic)

\* A sort that spawned two workers, one below the other, returned the order
\* that the single-threaded recursion produces, Equal elements included.
C5_Witness ==
    /\ phase = "returned"
    /\ options.threads = 4
    /\ spawned = 2
    /\ options.compare = "by_half"
    /\ array = <<1, 2, 3>>
    /\ out.vec = <<1, 3, 2>>

\* C6: sorting with the range option set to a valid range r returns what
\* sorting the full array made of array[r] returns, and every element of the
\* output is an element of array[r].
C6_RangeCorrectness ==
    phase = "returned" =>
        /\ Ok(out.vec) = parallel_split(SelectedSlice, <<0, Len(SelectedSlice)>>,
                                        options.compare, options.threads)
        /\ \A i \in DOMAIN out.vec :
               \E j \in (Selected[1] + 1)..Selected[2] : out.vec[i] = array[j]

\* A sort of the range 1..3 of an array whose element 0 is the smallest
\* returned the two selected elements only.
C6_Witness ==
    /\ phase = "returned"
    /\ options.range = Some(<<1, 3>>)
    /\ options.threads = 2
    /\ array = <<1, 3, 2>>
    /\ out.vec = <<2, 3>>

\* C7: a sequence that is already in non-decreasing comparator order is
\* returned unchanged, position by position, by the parallel and by the
\* sequential sort, also when several elements compare Equal.
C7_Idempotence ==
    phase \in {"returned", "seq_returned"} /\ Sorted(SelectedSlice, options.compare) =>
        out.vec = SelectedSlice

\* The budget of a call is at most 1: its two halves are called on its own
\* thread with budget 1, the upper one only after the lower one has returned,
\* and on the halves sequential split takes: split_at((len + 1) / 2).
SequentialShape(n) ==
    /\ LowerOf(n) \in Nodes =>
           /\ frames[LowerOf(n)].thread = frames[n].thread
           /\ frames[LowerOf(n)].threads = 1
           /\ frames[LowerOf(n)].range =
                  <<frames[n].range[1],
                    frames[n].range[1] + (range_len(frames[n].range) + 1) \div 2>>
    /\ UpperOf(n) \in Nodes =>
           /\ frames[UpperOf(n)].thread = frames[n].thread
           /\ frames[UpperOf(n)].threads = 1
           /\ frames[UpperOf(n)].range =
                  <<frames[n].range[1] + (range_len(frames[n].range) + 1) \div 2,
                    frames[n].range[2]>>
           /\ LowerOf(n) \in Nodes
           /\ frames[LowerOf(n)].pc = "done"
    /\ range_len(frames[n].range) > 1
           /\ frames[n].pc \in {"merge", "drain_upper", "drain_lower", "done"} =>
           /\ frames[n].lower =
                  sequential_split(Slice(array, frames[LowerOf(n)].range), options.compare)
           /\ frames[n].upper =
                  sequential_split(Slice(array, frames[UpperOf(n)].range), options.compare)

\* C8: for every budget and every schedule parallel split returns, at every
\* level, the sequence sequential split returns on the same sub-slice; with a
\* budget of at most 1 it makes the same splits and merges in the same order.
C8_ParallelEqualsSequential ==
    /\ phase = "returned" =>
           out.vec = sequential_sort_by(SelectedSlice, options.compare)
    /\ \A n \in Nodes :
           /\ frames[n].pc = "done" =>
                  frames[n].ret =
                      sequential_split(Slice(array, frames[n].range), options.compare)
           /\ frames[n].threads <= 1 => SequentialShape(n)

\* A single-threaded parallel sort returned the three elements in the order
\* of the sequential sort, which differs from the input order.
C8_Witness ==
    /\ phase = "returned"
    /\ options.threads = 1
    /\ spawned = 0
    /\ options.compare = "by_half"
    /\ array = <<1, 2, 3>>
    /\ out.vec = <<1, 3, 2>>
    /\ out.vec = sequential_sort_by(array, options.compare)

\* Calls that have their result, or are merging towards it.
PastHalves == {"merge", "drain_upper", "drain_lower", "done"}

\* The frame n is the first frame of a spawned worker.
IsWorker(n) == n \in Nodes /\ frames[n].thread = n

\* What a failure forbids, in one state: the parent of a panicked worker never
\* gets a vector from it nor reaches its merge, the caller of any panicked
\* call never goes on, and a sort in which a worker panicked never returns.
FailureIsFatal ==
    /\ \A n \in Nodes :
           /\ IsWorker(UpperOf(n)) /\ frames[UpperOf(n)].pc = "panicked" =>
                  /\ frames[n].pc \notin PastHalves
                  /\ frames[n].upper = <<>>
           /\ LowerOf(n) \in Nodes /\ frames[LowerOf(n)].pc = "panicked" =>
                  frames[n].pc \in {"in_lower", "panicked"}
           /\ UpperOf(n) \in Nodes /\ ~IsWorker(UpperOf(n))
                  /\ frames[UpperOf(n)].pc = "panicked" =>
                  frames[n].pc \in {"in_upper", "panicked"}
    /\ (\E w \in Nodes : frames[w].thread # MainThread /\ frames[w].pc = "panicked") =>
           /\ phase # "returned"
           /\ frames[Root].pc # "done"
    /\ phase = "panicked" => out = Panic /\ frames[Root].pc = "panicked"

\* A call that panicked is never run again: its frame stays as it is, and no
\* second frame is made for its range.
NoRerun ==
    \A n \in Nodes :
        frames[n].pc = "panicked" => n \in DOMAIN frames' /\ frames'[n] = frames[n]

\* C9: when a spawned worker, at any depth, ends in a panic, the join of its
\* parent panics, every enclosing call panics in turn and the sort ends in a
\* panic: it never returns a sequence and never runs the failed half again.
C9_WorkerFailureFatal == [][FailureIsFatal' /\ NoRerun]_vars

\* A worker two levels down panicked, its parent (which had its lower half)
\* panicked at the join, and the panic left sort through the root call.
C9_Witness ==
    /\ phase = "panicked"
    /\ IsWorker(5)
    /\ frames[5].pc = "panicked"
    /\ frames[4].pc = "done"
    /\ frames[2].lower # <<>>
    /\ frames[2].pc = "panicked"
    /\ frames[Root].pc = "panicked"
    /\ out = Panic

\* A step of the running sort: of one of its calls, or its end.
RunStep ==
    \/ SortReturn
    \/ SortPanic
    \/ \E n \in Nodes :
        \/ Leaf(n) \/ Spawn(n) \/ CallLower(n) \/ ReturnLower(n) \/ CallUpper(n)
        \/ ReturnUpper(n) \/ Join(n) \/ Unwind(n)
        \/ MergeStart(n) \/ DrainUpper(n) \/ DrainLower(n)

\* C10: a sort over a range with start > end or end > length never returns a
\* sequence: its root call never has a result, and while it runs it can always
\* take a step, so that it ends, and ends in a panic.
C10_MalformedRangePanics ==
    ~ValidRange(Selected, array) =>
        /\ phase \in {"idle", "running", "panicked"}
        /\ Root \in Nodes => frames[Root].pc # "done"
        /\ phase = "running" => ENABLED RunStep

\* The range ends beyond the array: the lower half was sorted, the worker on
\* the upper half panicked on the slice index, and the join passed the panic on.
C10_Witness ==
    /\ phase = "panicked"
    /\ Selected = <<0, 3>>
    /\ Len(array) = 2
    /\ IsWorker(3)
    /\ frames[3].pc = "panicked"
    /\ frames[Root].lower # <<>>
    /\ frames[Root].pc = "panicked"

\* C11: a sort with a thread count of 0 spawns no thread, runs every call on
\* the caller's thread, does not fail on a valid range with a comparator that
\* does not panic, and returns the sequence the same sort returns with a
\* thread count of 1.
C11_ZeroThreads ==
    options.threads = 0 /\ phase \in {"running", "returned", "panicked"} =>
        /\ spawned = 0
        /\ \A n \in Nodes :
               /\ frames[n].thread = MainThread
               /\ frames[n].pc \notin {"spawned", "join"}
               /\ ValidRange(Selected, array) /\ options.compare # "flaky" =>
                      frames[n].pc # "panicked"
        /\ ValidRange(Selected, array) /\ options.compare # "flaky" =>
               phase # "panicked"
        /\ phase = "returned" =>
               Ok(out.vec) = parallel_split(array, Selected, options.compare, 1)

\* A sort with a thread count of 0 returned three elements rearranged, with
\* the call on the upper half made on the caller's thread.
C11_Witness ==
    /\ phase = "returned"
    /\ options.threads = 0
    /\ spawned = 0
    /\ array = <<3, 1, 2>>
    /\ out.vec = <<1, 2, 3>>
    /\ frames[UpperOf(Root)].thread = MainThread

\* C12: during one call of sort with a thread count B >= 1 the number of
\* worker threads spawned so far, over all levels and branches, is at most
\* B - 1, and it is the number of calls that run as the first call of a worker.
C12_SpawnBound ==
    options.threads >= 1 /\ phase \in {"running", "returned", "panicked"} =>
        /\ spawned <= options.threads - 1
        /\ spawned = Cardinality({n \in Nodes : IsWorker(n)})

\* A sort of three elements with a thread count of 2 returned after spawning
\* its one worker: the bound is met.
C12_Witness ==
    /\ phase = "returned"
    /\ options.threads = 2
    /\ Len(out.vec) = 3
    /\ spawned = 1
    /\ IsWorker(UpperOf(Root))

\* C13: no step taken while a sort runs, on any thread and in any schedule,
\* changes the shared input array: the array in the state after the step, the
\* return or the panic of sort included, is the array the call was given.
C13_ArrayReadOnly == [][phase = "running" => array' = array]_vars

\* A sort with a worker returned the elements rearranged, and the array still
\* holds them in the order it was given.
C13_Witness ==
    /\ phase = "returned"
    /\ spawned >= 1
    /\ array = <<2, 3, 1>>
    /\ out.vec = <<1, 2, 3>>

\* What a step does to the options: the comparator is never replaced, a step
\* that changes the thread count leaves the range and one that changes the
\* range leaves the thread count, each setter stores its argument, and only a
\* step between two calls of sort changes anything.
SettersOverwriteOwnField ==
    /\ options'.compare = options.compare
    /\ options'.threads # options.threads => options'.range = options.range
    /\ options'.range # options.range => options'.threads = options.threads
    /\ \A t \in ThreadCounts : SetThreads(t) => options'.threads = t
    /\ ThreadPerCpu => options'.threads = NumCpus
    /\ ThreadPerPhysicalCpu => options'.threads = NumPhysicalCpus
    /\ \A r \in Ranges : SetRange(r) => options'.range = Some(r)
    /\ FullRange => options'.range = None
    /\ options' # options => phase = "idle" /\ phase' = "idle"

\* The root call of the sort under way in the next state works on the range
\* that was set, or on the whole array when none is set, with the thread count
\* that is set.
RangeResolved ==
    Root \in DOMAIN frames' =>
        /\ frames'[Root].threads = options'.threads
        /\ frames'[Root].range =
               IF options'.range \in {Some(r) : r \in Ranges}
               THEN Head(options'.range) ELSE <<0, Len(array')>>

\* C14: sort works on the range set by range(r), and on the whole array when
\* none was set or after full_range(); each setter overwrites only its own
\* field; sort leaves the options unchanged; a second call of sort on the same
\* options and array returns the sequence the first call returned.
C14_ConfigReuse ==
    [][/\ SettersOverwriteOwnField
       /\ RangeResolved
       /\ phase = "running" /\ phase' = "returned" /\ out # NoOut => out' = out]_vars

\* The second call of sort on the range 1..3, with the thread count of
\* thread_per_physical_cpu(), has computed the vector the caller still holds
\* from the first call.
C14_Witness ==
    /\ phase = "running"
    /\ options.range = Some(<<1, 3>>)
    /\ options.threads = NumPhysicalCpus
    /\ array = <<1, 3, 2>>
    /\ out = Ok(<<2, 3>>)
    /\ frames[Root].pc = "done"
    /\ frames[Root].ret = <<2, 3>>

\* The call n has both halves: the call on the lower half was made on the
\* thread of n and has returned, the call on the upper half has returned (and,
\* when it ran on a worker, the worker has ended), and n holds their vectors.
HalvesCompleted(n) ==
    /\ LowerOf(n) \in Nodes
    /\ frames[LowerOf(n)].thread = frames[n].thread
    /\ frames[LowerOf(n)].pc = "done"
    /\ frames[n].lower = frames[LowerOf(n)].ret
    /\ UpperOf(n) \in Nodes
    /\ frames[UpperOf(n)].pc = "done"
    /\ frames[n].upper = frames[UpperOf(n)].ret
    /\ frames[n].threads > 1 <=> IsWorker(UpperOf(n))

\* The merge of the call n has run to its end: nothing is left in the
\* iterators or in the pivot, and the result is the merged vector.
MergeFinished(n) ==
    /\ frames[n].pivot = None
    /\ frames[n].lower_iter = <<>>
    /\ frames[n].upper_iter = <<>>
    /\ frames[n].ret = frames[n].merged
    /\ Len(frames[n].ret) = Len(frames[n].lower) + Len(frames[n].upper)

\* C15: at every level and in every schedule, a call that has started its
\* merge has both halves completed, the worker of the upper half joined; a
\* call that waits at its join or goes on to its upper half has its lower
\* half; a call that has handed back a result has finished its merge.
C15_JoinBeforeMerge ==
    /\ \A n \in Nodes :
           range_len(frames[n].range) > 1 =>
               /\ frames[n].pc \in PastHalves => HalvesCompleted(n)
               /\ frames[n].pc \in {"join", "call_upper", "in_upper"} =>
                      frames[LowerOf(n)].pc = "done"
               /\ frames[n].pc = "done" => MergeFinished(n)
    /\ phase = "returned" => frames[Root].pc = "done" /\ out.vec = frames[Root].ret

\* The root call is in its merge: its lower half, itself the merge of a call
\* that joined a worker, has returned, and the worker of its upper half has
\* ended and handed over its vector.
C15_Witness ==
    /\ phase = "running"
    /\ frames[Root].pc = "drain_lower"
    /\ IsWorker(UpperOf(Root))
    /\ frames[UpperOf(Root)].pc = "done"
    /\ frames[Root].upper = frames[UpperOf(Root)].ret
    /\ frames[LowerOf(Root)].pc = "done"
    /\ IsWorker(UpperOf(LowerOf(Root)))

\* The call n has spawned exactly one worker, for its upper half with half the
\* budget, and makes the call on its lower half itself with half the budget.
SpawnedOneWorker(n) ==
    /\ IsWorker(UpperOf(n))
    /\ frames[UpperOf(n)].threads = frames[n].threads \div 2
    /\ frames[UpperOf(n)].range[2] = frames[n].range[2]
    /\ frames[UpperOf(n)].range[1] > frames[n].range[1]
    /\ ~IsWorker(LowerOf(n))
    /\ frames[n].pc # "spawned" => LowerOf(n) \in Nodes
    /\ LowerOf(n) \in Nodes =>
           /\ frames[LowerOf(n)].thread = frames[n].thread
           /\ frames[LowerOf(n)].threads = frames[n].threads \div 2
           /\ frames[LowerOf(n)].range =
                  <<frames[n].range[1], frames[UpperOf(n)].range[1]>>

\* C16 as stated: every call whose budget is > 1, whatever the size of its
\* range, spawns exactly one worker: a call that has returned with a budget
\* > 1 has spawned one.
C16_SpawnWheneverBudget ==
    \A n \in Nodes :
        frames[n].threads > 1 /\ frames[n].pc = "done" => SpawnedOneWorker(n)

\* What the spawn policy means in one state, for every call made so far.
SpawnPolicy ==
    \A n \in Nodes :
        /\ frames[n].threads > 1 /\ range_len(frames[n].range) > 1 =>
               IF frames[n].pc = "start"
               THEN ENABLED Spawn(n) /\ LowerOf(n) \notin Nodes
               ELSE SpawnedOneWorker(n)
        /\ range_len(frames[n].range) <= 1 =>
               /\ LowerOf(n) \notin Nodes
               /\ UpperOf(n) \notin Nodes

\* C16, amended: every call whose budget is > 1 and whose range has more than
\* one element spawns exactly one worker, for the upper half with budget
\* floor(budget/2), before it calls the lower half on its own thread with
\* budget floor(budget/2), however short the range; a call on a range of at
\* most one element spawns nothing and makes no call.
C16_SpawnPolicy == []SpawnPolicy

\* With a thread count of 4, the call on the two-element lower half has budget
\* 2 and has spawned a worker with budget 1 for its one-element upper half,
\* and sorted its lower half itself with budget 1.
C16_Witness ==
    /\ options.threads = 4
    /\ LowerOf(LowerOf(Root)) \in Nodes
    /\ frames[LowerOf(Root)].threads = 2
    /\ range_len(frames[LowerOf(Root)].range) = 2
    /\ frames[LowerOf(Root)].pc = "done"
    /\ IsWorker(UpperOf(LowerOf(Root)))
    /\ frames[UpperOf(LowerOf(Root))].threads = 1
    /\ frames[LowerOf(LowerOf(Root))].thread = MainThread
    /\ frames[LowerOf(LowerOf(Root))].threads = 1

\* The call m is below the call n in the call tree.
RECURSIVE IsBelow(_, _)
IsBelow(m, n) == m > n /\ (m \div 2 = n \/ IsBelow(m \div 2, n))

\* What a budget <= 1 means in one state for the call and the calls below it.
SequentialBelow ==
    \A n \in Nodes :
        frames[n].threads <= 1 =>
            /\ frames[n].pc \notin {"spawned", "join"}
            /\ UpperOf(n) \in Nodes =>
                   LowerOf(n) \in Nodes /\ frames[LowerOf(n)].pc = "done"
            /\ \A m \in Nodes :
                   IsBelow(m, n) =>
                       /\ frames[m].thread = frames[n].thread
                       /\ frames[m].threads = 1
                       /\ frames[m].pc \notin {"spawned", "join"}
                       /\ UpperOf(m) \in Nodes =>
                              LowerOf(m) \in Nodes /\ frames[LowerOf(m)].pc = "done"

\* C17: a call with budget <= 1 never spawns, and no call below it in the call
\* tree does: none of them is at a spawn or a join or is the first call of a
\* worker, they all run on its thread with budget 1, and each of them calls
\* its upper half only when its lower half has returned.
C17_SequentialDegradation == []SequentialBelow

\* With a thread count of 2 the call on the lower half has budget 1: it
\* returned after solving both of its halves on the caller's thread, and the
\* one thread of the sort is the root's worker.
C17_Witness ==
    /\ phase = "returned"
    /\ options.threads = 2
    /\ spawned = 1
    /\ frames[LowerOf(Root)].threads = 1
    /\ UpperOf(LowerOf(Root)) \in Nodes
    /\ frames[LowerOf(LowerOf(Root))].thread = MainThread
    /\ frames[UpperOf(LowerOf(Root))].thread = MainThread
    /\ frames[UpperOf(LowerOf(Root))].threads = 1

\* One call of sort with a comparator that does not panic, its steps taken
\* under weak fairness: as long as some thread of the sort can take a step,
\* one of them is scheduled.
InitFair ==
    /\ array = <<>>
    /\ options \in {default_order, custom_order("by_half")}
    /\ phase = "idle"
    /\ frames = NoFrames
    /\ spawned = 0
    /\ out = NoOut

NextFair ==
    \/ phase = "idle" /\ \E t \in ThreadCounts : SetThreads(t)
    \/ ThreadPerCpu
    \/ ThreadPerPhysicalCpu
    \/ phase = "idle" /\ \E r \in Ranges : SetRange(r)
    \/ FullRange
    \/ phase = "idle" /\ \E arr \in Arrays : Sort(arr)
    \/ SortReturn
    \/ SortPanic
    \/ \E n \in Nodes :
        \/ Leaf(n)
        \/ Spawn(n)
        \/ CallLower(n)
        \/ ReturnLower(n)
        \/ CallUpper(n)
        \/ ReturnUpper(n)
        \/ Join(n)
        \/ Unwind(n)
        \/ MergeStart(n)
        \/ DrainUpper(n)
        \/ DrainLower(n)

SpecFair == InitFair /\ [][NextFair]_vars /\ WF_vars(RunStep)

\* What the merge of the call has still to emit: the elements left in the
\* two iterators and the pivot.
Remaining(f) == Len(f.lower_iter) + Len(f.upper_iter) + Len(f.pivot)

\* A drain step that does not end the loop of merge leaves strictly less to
\* emit, so that a merge takes finitely many drain steps.
DrainDecreases ==
    \A n \in Nodes :
        /\ frames[n].pc \in {"drain_upper", "drain_lower"}
        /\ frames'[n].pc \in {"drain_upper", "drain_lower"}
        /\ frames'[n] # frames[n]
        => Remaining(frames'[n]) < Remaining(frames[n])

\* Every worker the call spawned, directly or not, has ended and its parent
\* has joined it and taken its vector.
AllWorkersJoined ==
    \A w \in Nodes :
        IsWorker(w) =>
            /\ frames[w].pc = "done"
            /\ frames[w \div 2].pc = "done"
            /\ frames[w \div 2].upper = frames[w].ret

\* C18: under fair scheduling a call of sort with a comparator that does not
\* panic does not run for ever, and over a valid range it does not end in a
\* panic: it eventually returns; while it runs some thread can always take a
\* step (no join waits for ever); every drain step that does not end a merge
\* shortens what is left to merge; and when the sort has returned all the
\* workers it spawned have ended and been joined.
C18_Termination ==
    /\ []<>(phase # "running")
    /\ [](ValidRange(Selected, array) => phase # "panicked")
    /\ [](phase = "running" => ENABLED RunStep)
    /\ [][DrainDecreases]_vars
    /\ [](phase = "returned" => AllWorkersJoined)

\* A sort with two workers, one spawned below the other, has returned with
\* both workers ended and joined.
C18_Witness ==
    /\ phase = "returned"
    /\ options.compare = "natural"
    /\ spawned = 2
    /\ array = <<3, 2, 1>>
    /\ out.vec = <<1, 2, 3>>
    /\ IsWorker(UpperOf(Root))
    /\ IsWorker(UpperOf(LowerOf(Root)))
    /\ AllWorkersJoined

\* ceil(len / 2)
CeilHalf(len) == len - len \div 2

\* The ranges of the base-case calls below the call n, in the order of the
\* call tree: those below the lower half before those below the upper half.
RECURSIVE LeafRanges(_)
LeafRanges(n) ==
    IF LowerOf(n) \in Nodes /\ UpperOf(n) \in Nodes
    THEN LeafRanges(LowerOf(n)) \o LeafRanges(UpperOf(n))
    ELSE <<frames[n].range>>

\* The ranges follow one another from start to end without gap or overlap.
Tiles(ranges, start, end) ==
    /\ ranges[1][1] = start
    /\ ranges[Len(ranges)][2] = end
    /\ \A i \in 1..(Len(ranges) - 1) : ranges[i][2] = ranges[i + 1][1]
    /\ \A i \in DOMAIN ranges : ranges[i][2] - ranges[i][1] \in {0, 1}

\* The range of the call n and the ranges it hands to its two calls.
RangeSplit(n) ==
    LET r == frames[n].range
        len == r[2] - r[1]
        half == r[1] + CeilHalf(len)
    IN  /\ r[1] <= r[2] /\ r[2] <= Len(array)
        /\ n # Root =>
               /\ frames[n \div 2].range[1] <= r[1]
               /\ r[2] <= frames[n \div 2].range[2]
               /\ len >= 1
               /\ len < frames[n \div 2].range[2] - frames[n \div 2].range[1]
        /\ LowerOf(n) \in Nodes =>
               /\ len > 1
               /\ frames[LowerOf(n)].range = <<r[1], half>>
               /\ range_len(frames[LowerOf(n)].range) = CeilHalf(len)
        /\ UpperOf(n) \in Nodes =>
               /\ len > 1
               /\ frames[UpperOf(n)].range = <<half, r[2]>>
        /\ frames[n].pc = "done" => Tiles(LeafRanges(n), r[1], r[2])

\* The ranges of all the calls made so far, and the split of sequential.rs.
RangeSplittingInvariant ==
    /\ phase \in {"running", "returned", "panicked"} /\ ValidRange(Selected, array) =>
           \A n \in Nodes : RangeSplit(n)
    /\ phase = "seq_returned" /\ Len(SelectedSlice) > 1 =>
           LET len == Len(SelectedSlice) IN
           out.vec = sequential_merge(
               sequential_split(SubSeq(SelectedSlice, 1, CeilHalf(len)), options.compare),
               sequential_split(SubSeq(SelectedSlice, CeilHalf(len) + 1, len),
                                options.compare),
               options.compare)

\* C19: in a sort over a valid range every call gets a range with
\* start <= end <= length that lies inside the range of its caller; a range
\* of more than one element is split at start + ceil(len/2) into two
\* non-empty, strictly shorter ranges that meet at the split point and cover
\* it, the lower one of ceil(len/2) elements; the base-case ranges below a
\* call that has returned tile its range in index order. sequential split
\* splits its slice at ceil(len/2) too.
C19_RangeSplitting == []RangeSplittingInvariant

\* The sort of the whole of a three-element array has returned: the root
\* split 0..3 at 2, the lower call split 0..2 at 1, and the base cases tile
\* 0..3 from left to right.
C19_Witness ==
    /\ phase = "returned"
    /\ Selected = <<0, 3>>
    /\ frames[LowerOf(Root)].range = <<0, 2>>
    /\ frames[UpperOf(Root)].range = <<2, 3>>
    /\ LeafRanges(Root) = << <<0, 1>>, <<1, 2>>, <<2, 3>> >>

\* No element of u is greater than an element of v.
NoneGreater(u, v, c) ==
    \A i \in DOMAIN u : \A j \in DOMAIN v : compare(c, u[i], v[j]) # "Greater"

\* The loop invariant of merge on the frame f, whose next drain step is f.pc:
\* the pivot of a call about to drain the upper iterator was taken from the
\* lower one, and the other way round.
MergeLoopInvariant(f, c) ==
    /\ Sorted(f.merged, c)
    /\ NoneGreater(f.merged, f.pivot, c)
    /\ NoneGreater(f.merged, f.lower_iter, c)
    /\ NoneGreater(f.merged, f.upper_iter, c)
    /\ f.pc = "drain_upper" => NoneGreater(f.pivot, f.lower_iter, c)
    /\ f.pc = "drain_lower" => NoneGreater(f.pivot, f.upper_iter, c)
    /\ f.pc = "done" => f.pivot = None
    /\ SameElements(f.merged \o f.pivot \o f.lower_iter \o f.upper_iter,
                    f.lower \o f.upper)

\* What one drain step emits, from the frame f to the frame g, iter being
\* the iterator it drains: when it returns true, elements taken from the
\* iterator and then exactly one element, the former pivot; when it returns
\* false there was no pivot and it emits the rest of the iterator. The
\* merge_while_less of sequential.rs does the same on the same arguments.
DrainEmits(f, g, iter, iter_after, c) ==
    LET taken == Len(iter) - Len(iter_after) - Len(g.pivot)
        s == sequential_merge_while_less(iter, f.pivot, f.merged, c)
    IN  /\ g.pc \in {"drain_upper", "drain_lower"} =>
               /\ f.pivot # None
               /\ taken >= 0
               /\ g.merged = f.merged \o SubSeq(iter, 1, taken) \o f.pivot
               /\ g.pivot # None => g.pivot = Some(iter[taken + 1])
        /\ g.pc = "done" =>
               /\ f.pivot = None
               /\ g.merged = f.merged \o iter
               /\ g.ret = g.merged
        /\ s.merged = g.merged /\ s.pivot = g.pivot /\ s.half = iter_after
        /\ s.ret = (g.pc # "done")

\* C20: merge being called on two sequences sorted under the comparator,
\* after every drain step the emitted prefix is sorted, no emitted element is
\* greater than the pivot or than an element left in either iterator, the
\* pivot is not greater than what is left of the sequence it came from, and
\* merged, pivot and the two iterators hold exactly the elements of the two
\* inputs; a drain step that returns true has emitted exactly one former
\* pivot.
C20_MergeLoopInvariant ==
    [][/\ frames[Root].pc = "merge" => MergeLoopInvariant(frames'[Root], options.compare)
       /\ frames[Root].pc = "drain_upper" =>
              /\ MergeLoopInvariant(frames'[Root], options.compare)
              /\ DrainEmits(frames[Root], frames'[Root], frames[Root].upper_iter,
                            frames'[Root].upper_iter, options.compare)
       /\ frames[Root].pc = "drain_lower" =>
              /\ MergeLoopInvariant(frames'[Root], options.compare)
              /\ DrainEmits(frames[Root], frames'[Root], frames[Root].lower_iter,
                            frames'[Root].lower_iter, options.compare)]_vars

\* The merge of <<1, 3>> and <<2>> after its first drain step: the pivot 1 of
\* the lower sequence was emitted, the pivot is now 2, taken from the upper
\* one, and 3 is left in the lower iterator.
C20_Witness ==
    /\ frames[Root].pc = "drain_lower"
    /\ options.compare = "natural"
    /\ frames[Root].lower = <<1, 3>>
    /\ frames[Root].upper = <<2>>
    /\ frames[Root].merged = <<1>>
    /\ frames[Root].pivot = Some(2)
    /\ frames[Root].lower_iter = <<3>>
    /\ frames[Root].upper_iter = <<>>

\* The spawned workers that have not ended: their closure, the first call of
\* the worker's thread, has neither returned nor panicked.
LiveWorkers == {w \in Nodes : IsWorker(w) /\ frames[w].pc \notin {"done", "panicked"}}

\* The threads that are executing the recursion: the live workers, and the
\* caller's thread while sort has not returned or panicked.
LiveThreads == Cardinality(LiveWorkers) + (IF phase = "running" THEN 1 ELSE 0)

\* C21: in every state of a sort with thread count B, in every schedule, at
\* most max(1, B) threads are executing the recursion at once: the caller's
\* thread and the spawned workers that have not ended.
C21_LiveThreadBound ==
    phase \in {"running", "returned", "panicked"} =>
        LiveThreads <= (IF options.threads > 1 THEN options.threads ELSE 1)

\* A sort with a thread count of 2 is running on two threads: the caller's
\* thread is in the call on the lower half, which has made a call of its own,
\* and the worker of the upper half has not ended.
C21_Witness ==
    /\ phase = "running"
    /\ options.threads = 2
    /\ LiveThreads = 2
    /\ LiveWorkers = {UpperOf(Root)}
    /\ frames[Root].pc = "in_lower"
    /\ LowerOf(LowerOf(Root)) \in Nodes

====
